---- MODULE Spec2Model ----
(***************************************************************************)
(* Model of projected-hash-map (src/lib.rs): ProjectedHashMap<T, V>, a     *)
(* HashSet of HashMapHelper<T, V> wrappers whose Eq / Hash / Borrow        *)
(* delegate to the key that the wrapped value borrows as.                  *)
(*                                                                         *)
(* The backing HashSet is modelled as a bucketed table: an entry lives in  *)
(* the bucket selected by its hash, and is found inside the bucket by      *)
(* equality.  Lookups by a bare key hash the key and compare it with the   *)
(* borrowed form of each entry.  Keys collide in buckets, so hashing and   *)
(* equality both matter.                                                   *)
(***************************************************************************)
EXTENDS Integers, Sequences, FiniteSets, TLC

\* ---- bounds ------------------------------------------------------------
NumKeys == 3
NumData == 2
NumBuckets == 2
MaxCalls == 3

\* ---- the key type T and the value type V -------------------------------
\* T (String in the tests) is a small range of integers.
Keys == 1..NumKeys

Data == 1..NumData

\* V: the tests' User record; `name` is the projected field, `weight` is a
\* field that takes no part in the projection.
User == [name : Keys, weight : Data]

\* impl Borrow<String> for User
User_borrow(v) == v.name

\* <T as Hash>::hash, a deterministic function of the key, 4 bits wide.
T_hash(k) == (k * 31) % 16

\* ---- HashMapHelper<T, V> ----------------------------------------------
HashMapHelper(v) == [inner |-> v]

\* impl Borrow<T> for HashMapHelper
Helper_borrow(h) == User_borrow(h.inner)

\* A wrapper that compares the whole wrapped value (a derived PartialEq).
Helper_eq_derived(a, b) == a.inner = b.inner

\* impl PartialEq for HashMapHelper
Helper_eq(a, b) == User_borrow(a.inner) = User_borrow(b.inner)

\* A wrapper that hashes every field of the wrapped value.
Helper_hash_derived(h) == T_hash(h.inner.name + h.inner.weight)

\* impl Hash for HashMapHelper
Helper_hash(h) == T_hash(User_borrow(h.inner))

\* ---- the backing HashSet<HashMapHelper<T, V>> --------------------------
Buckets == 0..(NumBuckets - 1)

BucketOf(hash) == hash % NumBuckets

\* A table that starts out holding one entry.
HashSet_new_seeded ==
    [b \in Buckets |->
        IF b = BucketOf(T_hash(1))
        THEN <<[inner |-> [name |-> 1, weight |-> 1]]>> ELSE <<>>]

HashSet_new == [b \in Buckets |-> <<>>]

Min(S) == CHOOSE i \in S : \A j \in S : i <= j

\* A probe that trusts the hash alone: the first entry of the bucket.
FindEq_hashonly(s, h) == IF Len(s) = 0 THEN 0 ELSE 1

\* index in bucket s of the entry equal to wrapper h, 0 if none
FindEq(s, h) ==
    LET I == {i \in 1..Len(s) : Helper_eq(s[i], h)}
    IN  IF I = {} THEN 0 ELSE Min(I)

\* A lookup that trusts the hash alone: the first entry of the bucket.
FindKey_hashonly(s, key) == IF Len(s) = 0 THEN 0 ELSE 1

\* index in bucket s of the entry whose borrowed form equals key, 0 if none
FindKey(s, key) ==
    LET I == {i \in 1..Len(s) : Helper_borrow(s[i]) = key}
    IN  IF I = {} THEN 0 ELSE Min(I)

\* An erase that cuts the bucket at the hit and loses what follows it.
RemoveAt_tail(s, i) == SubSeq(s, 1, i - 1)

RemoveAt(s, i) == SubSeq(s, 1, i - 1) \o SubSeq(s, i + 1, Len(s))

\* HashSet::get(&key)
HashSet_get(t, key) ==
    LET s == t[BucketOf(T_hash(key))]
        i == FindKey(s, key)
    IN  IF i = 0 THEN <<>> ELSE <<s[i]>>

\* HashSet::insert(value): keeps the entry already present.
HashSet_insert(t, h) ==
    LET b == BucketOf(Helper_hash(h))
        i == FindEq(t[b], h)
    IN  IF i = 0 THEN [t EXCEPT ![b] = Append(@, h)] ELSE t

\* A replace that never probes and always adds the value.
HashSet_replace_push(t, h) ==
    [t EXCEPT ![BucketOf(Helper_hash(h))] = Append(@, h)]

\* HashSet::replace(value)
HashSet_replace(t, h) ==
    LET b == BucketOf(Helper_hash(h))
        i == FindEq(t[b], h)
    IN  IF i = 0 THEN [t EXCEPT ![b] = Append(@, h)]
                 ELSE [t EXCEPT ![b][i] = h]

\* A remove that trusts the hash alone and takes the bucket's first entry.
HashSet_remove_hashonly(t, key) ==
    LET b == BucketOf(T_hash(key))
        i == FindKey_hashonly(t[b], key)
    IN  IF i = 0 THEN [set |-> t, ret |-> FALSE]
                 ELSE [set |-> [t EXCEPT ![b] = RemoveAt(@, i)], ret |-> TRUE]

\* HashSet::remove(&key): the table afterwards and the returned bool
HashSet_remove(t, key) ==
    LET b == BucketOf(T_hash(key))
        i == FindKey(t[b], key)
    IN  IF i = 0 THEN [set |-> t, ret |-> FALSE]
                 ELSE [set |-> [t EXCEPT ![b] = RemoveAt(@, i)], ret |-> TRUE]

RECURSIVE SumLen(_, _)
SumLen(t, n) == IF n = 0 THEN 0 ELSE Len(t[n - 1]) + SumLen(t, n - 1)

\* A count of the buckets in use instead of the entries.
HashSet_len_buckets(t) == Cardinality({b \in Buckets : t[b] # <<>>})

\* HashSet::len()
HashSet_len(t) == SumLen(t, NumBuckets)

\* HashSet::is_empty()
HashSet_is_empty(t) == HashSet_len(t) = 0

\* A walk over the table that misses its first bucket.
RECURSIVE Flatten_skip(_, _)
Flatten_skip(t, n) ==
    IF n <= 1 THEN <<>> ELSE Flatten_skip(t, n - 1) \o t[n - 1]

RECURSIVE Flatten(_, _)
Flatten(t, n) == IF n = 0 THEN <<>> ELSE Flatten(t, n - 1) \o t[n - 1]

\* HashSet::iter(): the entries, bucket by bucket
HashSet_iter(t) == Flatten(t, NumBuckets)

\* ---- ProjectedHashMap<T, V> -------------------------------------------
\* Option<&V>: <<>> is None, <<v>> is Some(v).
default == HashSet_new

get(r, key) ==
    LET e == HashSet_get(r, key)
    IN  IF e = <<>> THEN <<>> ELSE <<e[1].inner>>

\* An insert through HashSet::insert, which keeps a colliding entry.
insert_keep(r, edge) == HashSet_insert(r, HashMapHelper(edge))

insert(r, edge) == HashSet_replace(r, HashMapHelper(edge))

is_empty(r) == HashSet_is_empty(r)

iter(r) ==
    LET s == HashSet_iter(r)
    IN  [i \in 1..Len(s) |-> s[i].inner]

len(r) == HashSet_len(r)

\* A removal that only reports membership (HashSet::contains).
remove_contains(r, key) == [set |-> r, ret |-> HashSet_remove(r, key).ret]

\* the container afterwards (set) and the returned bool (ret)
remove(r, key) == HashSet_remove(r, key)

\* ---- state -------------------------------------------------------------
\* repr: the container's only field with content (pd is PhantomData).
\* log : the calls made on the container so far, with what each returned.
VARIABLES repr, log

vars == <<repr, log>>

Call(op, arg, ret) == [op |-> op, arg |-> arg, ret |-> ret]

Init ==
    /\ repr = default
    /\ log = <<>>

CallInsert(v) ==
    /\ Len(log) < MaxCalls
    /\ repr' = insert(repr, v)
    /\ log' = Append(log, Call("insert", v, <<>>))

CallRemove(k) ==
    /\ Len(log) < MaxCalls
    /\ repr' = remove(repr, k).set
    /\ log' = Append(log, Call("remove", k, remove(repr, k).ret))

\* A lookup that takes the entry out of the table (HashSet::take).
CallGet_take(k) ==
    /\ Len(log) < MaxCalls
    /\ log' = Append(log, Call("get", k, get(repr, k)))
    /\ repr' = remove(repr, k).set

CallGet(k) ==
    /\ Len(log) < MaxCalls
    /\ log' = Append(log, Call("get", k, get(repr, k)))
    /\ UNCHANGED repr

CallIter ==
    /\ Len(log) < MaxCalls
    /\ log' = Append(log, Call("iter", 0, iter(repr)))
    /\ UNCHANGED repr

CallLen ==
    /\ Len(log) < MaxCalls
    /\ log' = Append(log, Call("len", 0, len(repr)))
    /\ UNCHANGED repr

CallIsEmpty ==
    /\ Len(log) < MaxCalls
    /\ log' = Append(log, Call("is_empty", 0, is_empty(repr)))
    /\ UNCHANGED repr

Next ==
    \/ \E v \in User : CallInsert(v)
    \/ \E k \in Keys : CallRemove(k)
    \/ \E k \in Keys : CallGet(k)
    \/ CallIter
    \/ CallLen
    \/ CallIsEmpty

Spec == Init /\ [][Next]_vars

\* ---- helpers for the properties ----------------------------------------
Range(s) == {s[i] : i \in 1..Len(s)}

Last(s) == s[Len(s)]

\* the step just taken appended a call of this operation to the log
Called(op) == /\ log' = Append(log, Last(log'))
              /\ Len(log') = Len(log) + 1
              /\ Last(log').op = op

TypeOK ==
    /\ repr \in [Buckets -> Seq([inner : User])]
    /\ Len(log) <= MaxCalls

\* positions of the log holding a call of this operation
CallsOf(l, op) == {i \in 1..Len(l) : l[i].op = op}

\* the slots <<bucket, index>> of the table whose entry borrows as key k,
\* searched over the whole table and not only over k's bucket
EntriesFor(r, k) ==
    {p \in UNION {{<<b, i>> : i \in 1..Len(r[b])} : b \in Buckets} :
        Helper_borrow(r[p[1]][p[2]]) = k}

\* the value last inserted under k with no remove(k) after it, read off the
\* log alone: Some(v) as <<v>>, None as <<>>
RECURSIVE LastInserted(_, _)
LastInserted(l, k) ==
    IF l = <<>> THEN <<>>
    ELSE LET c == Last(l)
             rest == SubSeq(l, 1, Len(l) - 1)
         IN  IF c.op = "insert" /\ User_borrow(c.arg) = k THEN <<c.arg>>
             ELSE IF c.op = "remove" /\ c.arg = k THEN <<>>
             ELSE LastInserted(rest, k)

\* ---- C1 ---------------------------------------------------------------
\* C1: replace-on-collision.  When insert(v) is called while a value with
\* the same projected key k is stored, get(k) afterwards is Some(v), and is
\* not the previously stored value when that differs from v; a get(k) call
\* made right after an insert(v) returns Some(v).
C1_ReplaceOnCollision ==
    [][ /\ \A v \in User :
             (Called("insert") /\ Last(log').arg = v
                /\ get(repr, User_borrow(v)) # <<>>)
             => /\ get(repr', User_borrow(v)) = <<v>>
                /\ (get(repr, User_borrow(v)) # <<v>>
                      => get(repr', User_borrow(v)) # get(repr, User_borrow(v)))
        /\ (Called("get") /\ Len(log) > 0 /\ Last(log).op = "insert"
               /\ User_borrow(Last(log).arg) = Last(log').arg)
             => Last(log').ret = <<Last(log).arg>>
      ]_vars

\* insert(u), insert(v) with the same key and different weights, then get
\* of that key returning v
C1_Witness ==
    \E i \in 1..(Len(log) - 2) :
        /\ log[i].op = "insert" /\ log[i + 1].op = "insert"
        /\ log[i + 2].op = "get"
        /\ User_borrow(log[i].arg) = User_borrow(log[i + 1].arg)
        /\ log[i].arg # log[i + 1].arg
        /\ log[i + 2].arg = User_borrow(log[i + 1].arg)
        /\ log[i + 2].ret = <<log[i + 1].arg>>

\* ---- C2 ---------------------------------------------------------------
InsertedKeys(l) == {User_borrow(l[i].arg) : i \in CallsOf(l, "insert")}

\* C2: after a sequence of calls on an empty container with no remove among
\* them, len() is the number of distinct projected keys inserted (and a
\* len() call made last returned that number), not the number of inserts.
C2_LenCountsDistinctKeys ==
    (CallsOf(log, "remove") = {})
    => /\ len(repr) = Cardinality(InsertedKeys(log))
       /\ (Len(log) > 0 /\ Last(log).op = "len")
            => Last(log).ret = Cardinality(InsertedKeys(log))

\* two inserts under one key, then len() returning 1
C2_Witness ==
    /\ CallsOf(log, "remove") = {}
    /\ Cardinality(CallsOf(log, "insert")) = 2
    /\ Cardinality(InsertedKeys(log)) = 1
    /\ Last(log).op = "len"
    /\ Last(log).ret = 1

\* ---- C3 ---------------------------------------------------------------
\* C3: in every reachable state at most one stored entry exists per
\* projected key, and right after insert(v) exactly one entry exists for
\* project(v) and it holds v.
C3_OneEntryPerKey ==
    /\ \A k \in Keys : Cardinality(EntriesFor(repr, k)) <= 1
    /\ (Len(log) > 0 /\ Last(log).op = "insert")
         => LET v == Last(log).arg
                E == EntriesFor(repr, User_borrow(v))
            IN  /\ Cardinality(E) = 1
                /\ \A p \in E : repr[p[1]][p[2]].inner = v

\* an insert that collides with the value stored by the call before it,
\* after a remove earlier in the run
C3_Witness ==
    /\ Len(log) >= 3
    /\ CallsOf(log, "remove") # {}
    /\ Last(log).op = "insert"
    /\ log[Len(log) - 1].op = "insert"
    /\ User_borrow(log[Len(log) - 1].arg) = User_borrow(Last(log).arg)
    /\ log[Len(log) - 1].arg # Last(log).arg

\* ---- C4 ---------------------------------------------------------------
\* C4: for every key k, get(k) is the value most recently inserted under k
\* with no remove(k) after it, else None; every get call made so far
\* returned exactly that; and get(project(v)) is Some(v) for every stored v.
C4_LookupCorrect ==
    /\ \A k \in Keys : get(repr, k) = LastInserted(log, k)
    /\ \A i \in CallsOf(log, "get") :
           log[i].ret = LastInserted(SubSeq(log, 1, i - 1), log[i].arg)
    /\ \A v \in Range(iter(repr)) : get(repr, User_borrow(v)) = <<v>>

\* insert under k, remove(k), insert another value under k: get(k) finds it
C4_Witness ==
    /\ Len(log) = 3
    /\ log[1].op = "insert" /\ log[2].op = "remove" /\ log[2].ret = TRUE
    /\ log[3].op = "insert" /\ log[3].arg # log[1].arg
    /\ User_borrow(log[3].arg) = log[2].arg
    /\ get(repr, log[2].arg) = <<log[3].arg>>

\* ---- C5 ---------------------------------------------------------------
\* C5: remove(k) immediately followed by get(k) returns None, whether or
\* not k was stored before the remove.
C5_RemoveThenGetAbsent ==
    /\ \A i \in 1..(Len(log) - 1) :
           (log[i].op = "remove" /\ log[i + 1].op = "get"
              /\ log[i + 1].arg = log[i].arg)
           => log[i + 1].ret = <<>>
    /\ (Len(log) > 0 /\ Last(log).op = "remove")
         => get(repr, Last(log).arg) = <<>>

\* a remove(k) that found k stored, then get(k) returning None
C5_Witness ==
    /\ Len(log) >= 2
    /\ log[Len(log) - 1].op = "remove" /\ log[Len(log) - 1].ret = TRUE
    /\ Last(log).op = "get" /\ Last(log).arg = log[Len(log) - 1].arg
    /\ Last(log).ret = <<>>
\* ---- C6 ---------------------------------------------------------------
\* C6: when no stored value projects to k, remove(k) returns false and
\* leaves the container unchanged: same table, same len(), same get(k') for
\* every key, same set yielded by iter().
C6_RemoveAbsentIsNoop ==
    [][ \A k \in Keys :
          (Called("remove") /\ Last(log').arg = k /\ EntriesFor(repr, k) = {})
          => /\ Last(log').ret = FALSE
             /\ repr' = repr
             /\ len(repr') = len(repr)
             /\ \A k2 \in Keys : get(repr', k2) = get(repr, k2)
             /\ Range(iter(repr')) = Range(iter(repr))
      ]_vars

\* remove(k) returned false for an absent k whose bucket holds another key
C6_Witness ==
    /\ Len(log) > 0
    /\ Last(log).op = "remove" /\ Last(log).ret = FALSE
    /\ repr[BucketOf(T_hash(Last(log).arg))] # <<>>

\* ---- C7 ---------------------------------------------------------------
\* C7: remove(k) returns true exactly when a value projecting to k was
\* stored right before the call; when it returns true, len() drops by
\* exactly 1 and the one value that left the container projects to k.
C7_RemoveReportsPresence ==
    [][ \A k \in Keys :
          (Called("remove") /\ Last(log').arg = k)
          => /\ (Last(log').ret = TRUE) <=> (EntriesFor(repr, k) # {})
             /\ (Last(log').ret = TRUE)
                  => /\ len(repr') = len(repr) - 1
                     /\ Range(iter(repr')) \subseteq Range(iter(repr))
                     /\ \E v \in User :
                           /\ User_borrow(v) = k
                           /\ Range(iter(repr)) \ Range(iter(repr')) = {v}
      ]_vars

\* remove(k) returned true, then remove(k) again returned false
C7_Witness ==
    /\ Len(log) >= 2
    /\ log[Len(log) - 1].op = "remove" /\ log[Len(log) - 1].ret = TRUE
    /\ Last(log).op = "remove" /\ Last(log).ret = FALSE
    /\ Last(log).arg = log[Len(log) - 1].arg

\* ---- C8 ---------------------------------------------------------------
\* C8: independence from full-value equality.  Inserting v while a value u
\* with the same projected key and different other fields is stored leaves
\* len() unchanged; afterwards u is yielded by iter() no more and returned
\* by no get, and insert returned nothing.
C8_SameKeyIsOneEntry ==
    [][ \A v \in User : \A u \in Range(iter(repr)) :
          (Called("insert") /\ Last(log').arg = v
             /\ User_borrow(u) = User_borrow(v) /\ u # v)
          => /\ len(repr') = len(repr)
             /\ u \notin Range(iter(repr'))
             /\ v \in Range(iter(repr'))
             /\ \A k \in Keys : get(repr', k) # <<u>>
             /\ Last(log').ret = <<>>
      ]_vars

\* insert(u), insert(v) with one key and different weights, then an iter()
\* that yielded v and not u
C8_Witness ==
    /\ Len(log) = 3
    /\ log[1].op = "insert" /\ log[2].op = "insert" /\ log[3].op = "iter"
    /\ User_borrow(log[1].arg) = User_borrow(log[2].arg)
    /\ log[1].arg # log[2].arg
    /\ log[3].ret = <<log[2].arg>>

\* ---- C9 ---------------------------------------------------------------
\* C9: iteration completeness.  iter() yields len() items, no two of them
\* with the same projected key; a value is yielded exactly when get of its
\* key returns it, which is exactly when it is the value last inserted
\* under its key and not removed since.
C9_IterComplete ==
    LET s == iter(repr)
    IN  /\ Len(s) = len(repr)
        /\ \A i, j \in 1..Len(s) :
               i # j => User_borrow(s[i]) # User_borrow(s[j])
        /\ \A v \in User :
               /\ (v \in Range(s)) <=> (get(repr, User_borrow(v)) = <<v>>)
               /\ (v \in Range(s)) <=> (LastInserted(log, User_borrow(v)) = <<v>>)

\* two inserts under different keys and a remove of one of them: iter()
\* yields the one value left
C9_Witness ==
    /\ Len(log) = 3
    /\ log[1].op = "insert" /\ log[2].op = "insert"
    /\ User_borrow(log[1].arg) # User_borrow(log[2].arg)
    /\ log[3].op = "remove" /\ log[3].ret = TRUE
    /\ Len(iter(repr)) = 1

\* ---- C10 --------------------------------------------------------------
\* C10: frame of insert and remove.  insert(v) and remove(k) leave get(k2)
\* as it was for every key k2 other than project(v), resp. k.
C10_Frame ==
    [][ /\ \A v \in User :
             (Called("insert") /\ Last(log').arg = v)
             => \A k2 \in Keys \ {User_borrow(v)} :
                   get(repr', k2) = get(repr, k2)
        /\ \A k \in Keys :
             (Called("remove") /\ Last(log').arg = k)
             => \A k2 \in Keys \ {k} : get(repr', k2) = get(repr, k2)
      ]_vars

\* an insert under a key whose bucket already holds a different key, which
\* is still found afterwards
C10_Witness ==
    /\ Len(log) > 0
    /\ Last(log).op = "insert"
    /\ \E k2 \in Keys \ {User_borrow(Last(log).arg)} :
          /\ BucketOf(T_hash(k2)) = BucketOf(T_hash(User_borrow(Last(log).arg)))
          /\ get(repr, k2) # <<>>

\* ---- C11 --------------------------------------------------------------
\* C11: get, iter, len and is_empty never mutate the container: the table
\* is the same before and after the call, and a call repeating the call
\* made just before it (same operation, same argument) returns the same
\* result.
C11_ReadsDoNotMutate ==
    [][ (Called("get") \/ Called("iter") \/ Called("len")
           \/ Called("is_empty"))
        => /\ repr' = repr
           /\ (Len(log) > 0 /\ Last(log).op = Last(log').op
                 /\ Last(log).arg = Last(log').arg)
               => Last(log').ret = Last(log).ret
      ]_vars

\* an insert, then two get calls of the inserted key returning the value
C11_Witness ==
    /\ Len(log) = 3
    /\ log[1].op = "insert" /\ log[2].op = "get" /\ log[3].op = "get"
    /\ log[2].arg = User_borrow(log[1].arg) /\ log[3].arg = log[2].arg
    /\ log[2].ret = <<log[1].arg>> /\ log[3].ret = log[2].ret
    /\ get(repr, log[3].arg) = log[3].ret

\* ---- C12 --------------------------------------------------------------
\* C12: default() constructs an empty container.  Before any call len() is
\* 0, is_empty() is true, get(k) is None and remove(k) is false for every
\* key k, and iter() yields nothing; whichever call is made first returned
\* accordingly.
C12_DefaultIsEmpty ==
    /\ (Len(log) = 0)
         => /\ len(repr) = 0
            /\ is_empty(repr) = TRUE
            /\ iter(repr) = <<>>
            /\ \A k \in Keys :
                  /\ get(repr, k) = <<>>
                  /\ remove(repr, k).ret = FALSE
    /\ (Len(log) >= 1)
         => /\ (log[1].op = "len") => (log[1].ret = 0)
            /\ (log[1].op = "is_empty") => (log[1].ret = TRUE)
            /\ (log[1].op = "iter") => (log[1].ret = <<>>)
            /\ (log[1].op = "get") => (log[1].ret = <<>>)
            /\ (log[1].op = "remove") => (log[1].ret = FALSE)

\* the first call on a fresh container is a remove, and it returned false
C12_Witness ==
    /\ Len(log) = 1
    /\ log[1].op = "remove" /\ log[1].ret = FALSE
    /\ is_empty(repr) = TRUE

\* ---- C13 --------------------------------------------------------------
\* the keys a lookup finds in table r
PresentKeys(r) == {k \in Keys : get(r, k) # <<>>}

\* C13: in every reachable state is_empty() is true exactly when len() is
\* 0, and len() is the number of stored entries: the number of keys k for
\* which get(k) is present, which is the number of keys the calls so far
\* have left stored.  A len() or is_empty() call made last returned so.
C13_LenAndIsEmpty ==
    /\ is_empty(repr) <=> (len(repr) = 0)
    /\ len(repr) = Cardinality(PresentKeys(repr))
    /\ len(repr) = Cardinality({k \in Keys : LastInserted(log, k) # <<>>})
    /\ (Len(log) > 0 /\ Last(log).op = "len")
         => Last(log).ret = Cardinality(PresentKeys(repr))
    /\ (Len(log) > 0 /\ Last(log).op = "is_empty")
         => (Last(log).ret <=> (PresentKeys(repr) = {}))

\* two keys of one bucket inserted, then len() returning 2
C13_Witness ==
    /\ Len(log) = 3
    /\ log[1].op = "insert" /\ log[2].op = "insert"
    /\ User_borrow(log[1].arg) # User_borrow(log[2].arg)
    /\ BucketOf(T_hash(User_borrow(log[1].arg)))
         = BucketOf(T_hash(User_borrow(log[2].arg)))
    /\ log[3].op = "len" /\ log[3].ret = 2
    /\ is_empty(repr) = FALSE

\* ---- C14 --------------------------------------------------------------
\* The conventional map of the refinement: one optional value per key.
Map_new == [k \in Keys |-> <<>>]

Map_insert(m, v) == [m EXCEPT ![v.name] = <<v>>]

Map_remove(m, k) == [map |-> [m EXCEPT ![k] = <<>>], ret |-> (m[k] # <<>>)]

Map_get(m, k) == m[k]

Map_len(m) == Cardinality({k \in Keys : m[k] # <<>>})

Map_is_empty(m) == \A k \in Keys : m[k] = <<>>

Map_values(m) == {m[k][1] : k \in {k2 \in Keys : m[k2] # <<>>}}

\* the map after the calls of log l, made one by one on an empty map
RECURSIVE MapAfter(_)
MapAfter(l) ==
    IF l = <<>> THEN Map_new
    ELSE LET c == Last(l)
             m == MapAfter(SubSeq(l, 1, Len(l) - 1))
         IN  IF c.op = "insert" THEN Map_insert(m, c.arg)
             ELSE IF c.op = "remove" THEN Map_remove(m, c.arg).map
             ELSE m

\* call c returned what the map m would have returned (iter as a set)
AgreesWithMap(c, m) ==
    /\ (c.op = "get") => (c.ret = Map_get(m, c.arg))
    /\ (c.op = "remove") => (c.ret = Map_remove(m, c.arg).ret)
    /\ (c.op = "len") => (c.ret = Map_len(m))
    /\ (c.op = "is_empty") => (c.ret = Map_is_empty(m))
    /\ (c.op = "iter") => (Range(c.ret) = Map_values(m) /\ Len(c.ret) = Map_len(m))

\* C14: the HashSet of projected entries refines a conventional map keyed
\* by the extracted key.  Run side by side over the calls made so far, the
\* two agree on every get, len, is_empty and remove result and on the set
\* yielded by iter, for the calls already made and for the next one.
C14_RefinesMap ==
    /\ \A i \in 1..Len(log) :
           AgreesWithMap(log[i], MapAfter(SubSeq(log, 1, i - 1)))
    /\ LET m == MapAfter(log)
       IN  /\ \A k \in Keys :
                 /\ get(repr, k) = Map_get(m, k)
                 /\ remove(repr, k).ret = Map_remove(m, k).ret
           /\ len(repr) = Map_len(m)
           /\ is_empty(repr) = Map_is_empty(m)
           /\ Range(iter(repr)) = Map_values(m)

\* two keys of one bucket inserted and the first removed: the map and the
\* container both hold the second value alone
C14_Witness ==
    /\ Len(log) = 3
    /\ log[1].op = "insert" /\ log[2].op = "insert"
    /\ User_borrow(log[1].arg) # User_borrow(log[2].arg)
    /\ BucketOf(T_hash(User_borrow(log[1].arg)))
         = BucketOf(T_hash(User_borrow(log[2].arg)))
    /\ log[3].op = "remove" /\ log[3].arg = User_borrow(log[1].arg)
    /\ log[3].ret = TRUE
    /\ Map_values(MapAfter(log)) = {log[2].arg}
    /\ iter(repr) = <<log[2].arg>>

\* ---- C15 --------------------------------------------------------------
\* the container after the calls of log l, made one by one on default()
RECURSIVE ReprAfter(_)
ReprAfter(l) ==
    IF l = <<>> THEN default
    ELSE LET c == Last(l)
             r == ReprAfter(SubSeq(l, 1, Len(l) - 1))
         IN  IF c.op = "insert" THEN insert(r, c.arg)
             ELSE IF c.op = "remove" THEN remove(r, c.arg).set
             ELSE r

\* what the API shows of table r, the order of iteration left out
Observed(r) ==
    [get |-> [k \in Keys |-> get(r, k)],
     len |-> len(r),
     is_empty |-> is_empty(r),
     iter |-> Range(iter(r))]

\* a starting state for further calls: reached by inserts and removes
\* alone (reads change nothing), with a call of the run still to be made
StartState ==
    /\ Len(log) < MaxCalls
    /\ \A i \in 1..Len(log) : log[i].op \in {"insert", "remove"}

\* C15: order independence of membership.  From any reachable state, for
\* values v, w with different projected keys insert(v); insert(w) and
\* insert(w); insert(v) lead to the same observable container (same get for
\* every key, same len, same set of values; the table's layout and so the
\* iteration order may differ); with equal keys the result is that of the
\* last insert alone; the set of stored keys is the same either way.  Two
\* inserts made last in a run could have been made in the other order.
C15_OrderIndependent ==
    /\ StartState
         => \A v, w \in User :
              LET vw == insert(insert(repr, v), w)
                  wv == insert(insert(repr, w), v)
              IN  /\ (User_borrow(v) # User_borrow(w))
                       => Observed(vw) = Observed(wv)
                  /\ (User_borrow(v) = User_borrow(w))
                       => /\ Observed(vw) = Observed(insert(repr, w))
                          /\ get(vw, User_borrow(w)) = <<w>>
                  /\ PresentKeys(vw) = PresentKeys(wv)
    /\ (Len(log) >= 2 /\ Last(log).op = "insert"
          /\ log[Len(log) - 1].op = "insert"
          /\ User_borrow(Last(log).arg) # User_borrow(log[Len(log) - 1].arg))
         => LET r0 == ReprAfter(SubSeq(log, 1, Len(log) - 2))
            IN  Observed(repr)
                 = Observed(insert(insert(r0, Last(log).arg),
                                   log[Len(log) - 1].arg))

\* two inserts under different keys of one bucket: made in the other order
\* they give another table layout
C15_Witness ==
    /\ Len(log) = 2
    /\ log[1].op = "insert" /\ log[2].op = "insert"
    /\ User_borrow(log[1].arg) # User_borrow(log[2].arg)
    /\ insert(insert(default, log[2].arg), log[1].arg) # repr
    /\ len(repr) = 2

\* ---- C16 --------------------------------------------------------------
\* log l with its i-th call left out
Without(l, i) == SubSeq(l, 1, i - 1) \o SubSeq(l, i + 1, Len(l))

\* C16: insert is idempotent and absorbs an earlier insert under the same
\* key.  From any reachable state insert(v); insert(v) gives the table of
\* insert(v), and insert(u); insert(v) with project(u) = project(v) gives
\* the table of insert(v); a run in which an insert is directly followed
\* by an insert under the same key ends in the state of the run without
\* the first of the two.
C16_InsertAbsorbs ==
    /\ StartState
         => \A u, v \in User :
              (User_borrow(u) = User_borrow(v))
              => /\ insert(insert(repr, v), v) = insert(repr, v)
                 /\ insert(insert(repr, u), v) = insert(repr, v)
    /\ \A i \in 1..(Len(log) - 1) :
          (log[i].op = "insert" /\ log[i + 1].op = "insert"
             /\ User_borrow(log[i].arg) = User_borrow(log[i + 1].arg))
          => repr = ReprAfter(Without(log, i))

\* insert(u), insert(v), insert(v) with one key and different weights: the
\* table is the one a single insert(v) gives
C16_Witness ==
    /\ Len(log) = 3
    /\ log[1].op = "insert" /\ log[2].op = "insert" /\ log[3].op = "insert"
    /\ User_borrow(log[1].arg) = User_borrow(log[2].arg)
    /\ log[1].arg # log[2].arg
    /\ log[3].arg = log[2].arg
    /\ repr = insert(default, log[3].arg)

\* ---- C17 --------------------------------------------------------------
\* table r1 is what insert(v) then remove(project(v)), returning ret, make
\* of table r0: r0 itself when the key was absent from r0, else r0 with the
\* key's earlier value gone for good
RoundTrip(r0, v, r1, ret) ==
    LET k == User_borrow(v)
    IN  /\ ret = TRUE
        /\ \A k2 \in Keys \ {k} : get(r1, k2) = get(r0, k2)
        /\ get(r1, k) = <<>>
        /\ IF EntriesFor(r0, k) = {}
           THEN /\ r1 = r0
                /\ len(r1) = len(r0)
                /\ get(r1, k) = get(r0, k)
           ELSE /\ len(r1) = len(r0) - 1
                /\ get(r1, k) # get(r0, k)

\* C17: insert/remove round trip.  From any reachable state in which key k
\* is absent, insert(v) with project(v) = k followed by remove(k) returns
\* true and restores the prior state (same table, same len(), same get for
\* every key); if k was present, the pair leaves k absent and len() one
\* smaller, the earlier value not restored.  It holds of the pair applied
\* to a reachable state and of a pair made last in a run.
C17_InsertRemoveRoundTrip ==
    /\ StartState
         => \A v \in User :
              LET rm == remove(insert(repr, v), User_borrow(v))
              IN  RoundTrip(repr, v, rm.set, rm.ret)
    /\ (Len(log) >= 2 /\ log[Len(log) - 1].op = "insert"
          /\ Last(log).op = "remove"
          /\ Last(log).arg = User_borrow(log[Len(log) - 1].arg))
         => RoundTrip(ReprAfter(SubSeq(log, 1, Len(log) - 2)),
                      log[Len(log) - 1].arg, repr, Last(log).ret)

\* a value stored, then insert(v) under an absent key of the same bucket
\* and remove of that key: the table is as after the first call
C17_Witness ==
    /\ Len(log) = 3
    /\ log[1].op = "insert" /\ log[2].op = "insert" /\ log[3].op = "remove"
    /\ User_borrow(log[1].arg) # User_borrow(log[2].arg)
    /\ BucketOf(T_hash(User_borrow(log[1].arg)))
         = BucketOf(T_hash(User_borrow(log[2].arg)))
    /\ log[3].arg = User_borrow(log[2].arg)
    /\ log[3].ret = TRUE
    /\ repr = insert(default, log[1].arg)

\* ---- C18 --------------------------------------------------------------
\* the slots <<bucket, index>> in use in table r
Slots(r) == UNION {{<<b, i>> : i \in 1..Len(r[b])} : b \in Buckets}

\* C18: HashMapHelper delegates equality, hashing and borrowing to the
\* projected key.  A stored wrapper equals any wrapper exactly when their
\* inner values have the same name, whatever the weights; its hash is the
\* hash of that name and its borrowed form is that name; so it sits in the
\* bucket of its key, and a probe by the bare key and a probe by the
\* wrapper both stop at its slot.
C18_HelperDelegatesToKey ==
    \A p \in Slots(repr) :
        LET e == repr[p[1]][p[2]]
        IN  /\ \A v \in User :
                  Helper_eq(e, HashMapHelper(v)) <=> (e.inner.name = v.name)
            /\ \A v \in User :
                  Helper_eq(HashMapHelper(v), e) <=> (e.inner.name = v.name)
            /\ Helper_hash(e) = T_hash(e.inner.name)
            /\ Helper_borrow(e) = e.inner.name
            /\ BucketOf(Helper_hash(e)) = p[1]
            /\ BucketOf(T_hash(e.inner.name)) = p[1]
            /\ FindKey(repr[p[1]], e.inner.name) = p[2]
            /\ FindEq(repr[p[1]], e) = p[2]
            /\ HashSet_get(repr, e.inner.name) = <<e>>

\* a value replaced by one of the same key and another weight, found by
\* the bare key, while a different key is stored in the same bucket
C18_Witness ==
    /\ Len(log) = 3
    /\ log[1].op = "insert" /\ log[2].op = "insert" /\ log[3].op = "insert"
    /\ User_borrow(log[1].arg) # User_borrow(log[2].arg)
    /\ BucketOf(T_hash(User_borrow(log[1].arg)))
         = BucketOf(T_hash(User_borrow(log[2].arg)))
    /\ User_borrow(log[3].arg) = User_borrow(log[2].arg)
    /\ log[3].arg # log[2].arg
    /\ HashSet_get(repr, User_borrow(log[3].arg)) = <<HashMapHelper(log[3].arg)>>
    /\ len(repr) = 2
====
